---- MODULE Spec2Model ----
(***************************************************************************)
(* mmdbimport (src/main.go): JSON -> MMDB import tool.                     *)
(*                                                                         *)
(* The module models the validation pipeline (fail-fast and collect-all),  *)
(* the IP version detector, the typed-value converter and the control flow *)
(* of main() in check mode and build mode.                                 *)
(*                                                                         *)
(* Go values of dynamic type (interface{}) are records tagged by their     *)
(* dynamic type in field t.  A Go map is a function whose DOMAIN is the    *)
(* key set; the iteration order of a Go map is unspecified, so every       *)
(* function that ranges over a map yields the SET of results that some     *)
(* iteration order produces.  A nil error / nil pointer is the empty       *)
(* sequence, a non-nil one a sequence of length one.                       *)
(***************************************************************************)
EXTENDS Integers, Sequences, FiniteSets, TLC

VARIABLES
    pc,         \* position of the run (main) or of the harness (function specs)
    now,        \* last reading of the clock, time.Now().Unix()
    mode,       \* main: "check" (--check) or "build" (--input)
    doc,        \* main: the content of the JSON file, as readJSONFile decodes it
    ve,         \* main: ValidationErrors.Errors of validateJSONFile
    inputData,  \* main: the InputData main() holds (mutated by the defaults)
    idx,        \* main: index of the next record of the running loop
    ipVersion,  \* main: result of detectIPVersion
    writer,     \* main: the mmdbwriter.Tree: <<>> before New, else <<options>>
    attempts,   \* main: indices for which processRecord was called, in order
    inserted,   \* main: indices whose writer.Insert succeeded, in order
    writes,     \* main: number of writer.WriteTo invocations
    exitCode,   \* main: <<>> while running, <<code>> once the process exited
    arg,        \* function specs: the argument the function is applied to
    res         \* function specs: the results obtained so far

vars == <<pc, now, mode, doc, ve, inputData, idx, ipVersion, writer,
          attempts, inserted, writes, exitCode, arg, res>>

mainVars == <<mode, doc, ve, inputData, idx, ipVersion, writer,
              attempts, inserted, writes, exitCode>>

(***************************************************************************)
(* Bounds of the model.                                                    *)
(***************************************************************************)
MaxRecords == 2     \* records of a document
MaxListLen == 2     \* elements of a JSON array
MaxLangs == 2       \* entries of metadata.languages
MaxNow == 1         \* the clock runs over 0..MaxNow

(***************************************************************************)
(* Go values.                                                              *)
(***************************************************************************)
Nil == [t |-> "nil"]
GoString(s) == [t |-> "string", s |-> s]
GoNumber(type, n) == [t |-> type, n |-> n]
GoBool(b) == [t |-> "bool", b |-> b]
GoSlice(l) == [t |-> "slice", l |-> l]
GoMap(m) == [t |-> "map", m |-> m]
\* a nil map[string]any: the Data of a record whose "data" is missing or null
NilMap == [t |-> "nilmap"]

\* len(m) of a map value, 0 for the nil map
MapLen(d) == IF d.t = "map" THEN Cardinality(DOMAIN d.m) ELSE 0

\* the orders in which `for k := range m` may visit the key set S
Orders(S) ==
    {o \in [1..Cardinality(S) -> S] : \A k \in S : \E j \in DOMAIN o : o[j] = k}

\* strconv of a small non-negative int, as %d prints it
Itoa(n) == ToString(n)

(***************************************************************************)
(* net.ParseCIDR and net.IP.To4 on the network literals of the model.      *)
(***************************************************************************)
CIDRv4 == {"10.0.0.0/8"}
CIDRv6 == {"2001:db8::/32"}
\* an IPv4-mapped IPv6 literal: ParseCIDR accepts it and To4 returns non-nil
CIDRv4Mapped == {"::ffff:10.0.0.0/104"}
Malformed == {"bad"}
Networks == {""} \cup Malformed \cup CIDRv4 \cup CIDRv6 \cup CIDRv4Mapped

\* err != nil of net.ParseCIDR(s)
ParseCIDRFails(s) == s \notin (CIDRv4 \cup CIDRv6 \cup CIDRv4Mapped)
\* the text of that error
ParseCIDRError(s) == "invalid CIDR address: " \o s
\* ip.To4() != nil for the ip ParseCIDR(s) returns
To4NotNil(s) == s \in (CIDRv4 \cup CIDRv4Mapped)

(***************************************************************************)
(* ValidationError and ValidationErrors.                                   *)
(***************************************************************************)
ValidationError(field, message) == [Field |-> field, Message |-> message]

\* a returned error value
Fail(field, message) == << ValidationError(field, message) >>
NoError == << >>

\* (ve *ValidationErrors).Add
Add(sink, field, message) == Append(sink, ValidationError(field, message))

\* (ve *ValidationErrors).HasErrors
HasErrors(sink) == Len(sink) > 0

(***************************************************************************)
(* Fail-fast validation.  Each operator yields the set of values the Go    *)
(* function may return: NoError or one error.                              *)
(***************************************************************************)
RECURSIVE validateDataStructure(_, _)
RECURSIVE vdsRangeMap(_, _, _, _)
RECURSIVE vdsRangeSlice(_, _, _)

\* for key, value := range v { ... }, from the j-th key of the order o
vdsRangeMap(m, path, o, j) ==
    IF j > Len(o) THEN {NoError}
    ELSE LET key == o[j] IN
         IF key = "" THEN {Fail(path, "map key cannot be empty")}
         ELSE LET rs == validateDataStructure(m[key], path \o "." \o key) IN
              {r \in rs : r # NoError}
                \cup (IF NoError \in rs THEN vdsRangeMap(m, path, o, j + 1) ELSE {})

\* faulty variant: the loop over a list returns after its first element
vdsRangeSliceFirstOnly(l, path, j) ==
    IF j > Len(l) THEN {NoError}
    ELSE validateDataStructure(l[j], path \o "[" \o Itoa(j - 1) \o "]")

\* for i, value := range v { ... }, from the j-th element (Go index j-1)
vdsRangeSlice(l, path, j) ==
    IF j > Len(l) THEN {NoError}
    ELSE LET rs == validateDataStructure(l[j], path \o "[" \o Itoa(j - 1) \o "]") IN
         {r \in rs : r # NoError}
           \cup (IF NoError \in rs THEN vdsRangeSlice(l, path, j + 1) ELSE {})

validateDataStructure(data, path) ==
    IF data.t = "nil" THEN {Fail(path, "value cannot be nil")}
    ELSE IF data.t = "map" THEN
        IF MapLen(data) = 0 THEN {Fail(path, "map cannot be empty")}
        ELSE UNION {vdsRangeMap(data.m, path, o, 1) : o \in Orders(DOMAIN data.m)}
    ELSE IF data.t = "slice" THEN
        IF Len(data.l) = 0 THEN {Fail(path, "array cannot be empty")}
        ELSE vdsRangeSlice(data.l, path, 1)
    ELSE {NoError}

\* faulty variant: the emptiness check of the data reads len(record.Data) <= 1
validateRecordOffByOne(record) ==
    IF record.Network = "" THEN {Fail("network", "network is required")}
    ELSE IF ParseCIDRFails(record.Network)
    THEN {Fail("network", "invalid CIDR format: " \o ParseCIDRError(record.Network))}
    ELSE IF record.Data.t = "nilmap" THEN {Fail("data", "data is required")}
    ELSE IF MapLen(record.Data) <= 1 THEN {Fail("data", "data cannot be empty")}
    ELSE validateDataStructure(record.Data, "data")

validateRecord(record) ==
    IF record.Network = "" THEN {Fail("network", "network is required")}
    ELSE IF ParseCIDRFails(record.Network)
    THEN {Fail("network", "invalid CIDR format: " \o ParseCIDRError(record.Network))}
    ELSE IF record.Data.t = "nilmap" THEN {Fail("data", "data is required")}
    ELSE IF MapLen(record.Data) = 0 THEN {Fail("data", "data cannot be empty")}
    ELSE validateDataStructure(record.Data, "data")

\* the future-timestamp check; t is the reading of time.Now().Unix()
vmTimestamp(m, t) ==
    IF Len(m.BuildTimestamp) > 0 /\ m.BuildTimestamp[1] > t
    THEN {Fail("metadata.build_epoch", "build timestamp cannot be in the future")}
    ELSE {NoError}

\* faulty variant: the description languages are not looked up in the languages list
vmRangeMembershipSkipped(m, o, j, langMap, t) == vmTimestamp(m, t)

RECURSIVE vmRangeMembership(_, _, _, _, _)
\* for lang := range m.Description { if !langMap[lang] ... }
vmRangeMembership(m, o, j, langMap, t) ==
    IF j > Len(o) THEN vmTimestamp(m, t)
    ELSE IF o[j] \notin langMap
    THEN {Fail("metadata.languages",
               "description language '" \o o[j] \o "' not found in languages list")}
    ELSE vmRangeMembership(m, o, j + 1, langMap, t)

RECURSIVE vmRangeLanguages(_, _, _, _)
\* for _, lang := range m.Languages { ... }, then the membership loop
vmRangeLanguages(m, j, langMap, t) ==
    IF j > Len(m.Languages)
    THEN UNION {vmRangeMembership(m, o, 1, langMap, t) : o \in Orders(DOMAIN m.Description)}
    ELSE LET lang == m.Languages[j] IN
         IF lang = "" THEN {Fail("metadata.languages", "language code cannot be empty")}
         ELSE IF lang \in langMap
         THEN {Fail("metadata.languages", "duplicate language code: " \o lang)}
         ELSE vmRangeLanguages(m, j + 1, langMap \cup {lang}, t)

RECURSIVE vmRangeDescription(_, _, _, _)
\* for lang, desc := range m.Description { ... }, then the rest of the function
vmRangeDescription(m, o, j, t) ==
    IF j > Len(o)
    THEN IF Len(m.Languages) > 0 THEN vmRangeLanguages(m, 1, {}, t) ELSE vmTimestamp(m, t)
    ELSE LET lang == o[j]
             desc == m.Description[lang]
         IN IF lang = "" THEN {Fail("metadata.description", "language code cannot be empty")}
            ELSE IF desc = ""
            THEN {Fail("metadata.description." \o lang, "description cannot be empty")}
            ELSE vmRangeDescription(m, o, j + 1, t)

validateMetadata(m, t) ==
    IF m.DatabaseType = ""
    THEN {Fail("metadata.database_type", "database_type is required")}
    ELSE IF Cardinality(DOMAIN m.Description) = 0
    THEN {Fail("metadata.description", "at least one description is required")}
    ELSE UNION {vmRangeDescription(m, o, 1, t) : o \in Orders(DOMAIN m.Description)}

(***************************************************************************)
(* Collect-all validation.  Each operator takes the sink (the Errors of    *)
(* the *ValidationErrors) and yields the set of sinks the Go function may  *)
(* leave behind, one per iteration order of the maps it ranges over.       *)
(***************************************************************************)
RECURSIVE validateDataStructureCollectErrors(_, _, _)
RECURSIVE vdscRangeMap(_, _, _, _, _)
RECURSIVE vdscRangeSlice(_, _, _, _)

\* faulty variant: the loop over a map stops at an empty key
vdscRangeMapStopsAtEmptyKey(m, path, o, j, sink) ==
    IF j > Len(o) THEN {sink}
    ELSE LET key == o[j] IN
         IF key = "" THEN {Add(sink, path, "map key cannot be empty")}
         ELSE UNION {vdscRangeMap(m, path, o, j + 1, s2) :
                       s2 \in validateDataStructureCollectErrors(m[key], path \o "." \o key, sink)}

vdscRangeMap(m, path, o, j, sink) ==
    IF j > Len(o) THEN {sink}
    ELSE LET key == o[j]
             s1 == IF key = "" THEN Add(sink, path, "map key cannot be empty") ELSE sink
         IN UNION {vdscRangeMap(m, path, o, j + 1, s2) :
                     s2 \in validateDataStructureCollectErrors(m[key], path \o "." \o key, s1)}

vdscRangeSlice(l, path, j, sink) ==
    IF j > Len(l) THEN {sink}
    ELSE UNION {vdscRangeSlice(l, path, j + 1, s2) :
                  s2 \in validateDataStructureCollectErrors(
                            l[j], path \o "[" \o Itoa(j - 1) \o "]", sink)}

validateDataStructureCollectErrors(data, path, sink) ==
    IF data.t = "nil" THEN {Add(sink, path, "value cannot be nil")}
    ELSE IF data.t = "map" THEN
        IF MapLen(data) = 0 THEN {Add(sink, path, "map cannot be empty")}
        ELSE UNION {vdscRangeMap(data.m, path, o, 1, sink) : o \in Orders(DOMAIN data.m)}
    ELSE IF data.t = "slice" THEN
        IF Len(data.l) = 0 THEN {Add(sink, path, "array cannot be empty")}
        ELSE vdscRangeSlice(data.l, path, 1, sink)
    ELSE {sink}

\* faulty variant: a network that does not parse ends the checks of the record
validateRecordCollectErrorsStopsAtNetwork(record, index, sink) ==
    LET fieldPrefix == "records[" \o Itoa(index) \o "]" IN
    IF record.Network = ""
    THEN {Add(sink, fieldPrefix \o ".network", "network is required")}
    ELSE IF ParseCIDRFails(record.Network)
    THEN {Add(sink, fieldPrefix \o ".network",
              "invalid CIDR format: " \o ParseCIDRError(record.Network))}
    ELSE IF record.Data.t = "nilmap"
    THEN {Add(sink, fieldPrefix \o ".data", "data is required")}
    ELSE LET s2 == IF MapLen(record.Data) = 0
                   THEN Add(sink, fieldPrefix \o ".data", "data cannot be empty")
                   ELSE sink
         IN validateDataStructureCollectErrors(record.Data, fieldPrefix \o ".data", s2)

validateRecordCollectErrors(record, index, sink) ==
    LET fieldPrefix == "records[" \o Itoa(index) \o "]" IN
    IF record.Network = ""
    THEN {Add(sink, fieldPrefix \o ".network", "network is required")}
    ELSE LET s1 == IF ParseCIDRFails(record.Network)
                   THEN Add(sink, fieldPrefix \o ".network",
                            "invalid CIDR format: " \o ParseCIDRError(record.Network))
                   ELSE sink
         IN IF record.Data.t = "nilmap"
            THEN {Add(s1, fieldPrefix \o ".data", "data is required")}
            ELSE LET s2 == IF MapLen(record.Data) = 0
                           THEN Add(s1, fieldPrefix \o ".data", "data cannot be empty")
                           ELSE s1
                 IN validateDataStructureCollectErrors(record.Data, fieldPrefix \o ".data", s2)

\* faulty variant: collect-all validation omits the future-timestamp check
vmcTimestampUnchecked(m, t, sink) == sink

vmcTimestamp(m, t, sink) ==
    IF Len(m.BuildTimestamp) > 0 /\ m.BuildTimestamp[1] > t
    THEN Add(sink, "metadata.build_epoch", "build timestamp cannot be in the future")
    ELSE sink

RECURSIVE vmcRangeMembership(_, _, _, _, _)
vmcRangeMembership(m, o, j, langMap, sink) ==
    IF j > Len(o) THEN sink
    ELSE vmcRangeMembership(m, o, j + 1, langMap,
            IF o[j] \notin langMap
            THEN Add(sink, "metadata.languages",
                     "description language '" \o o[j] \o "' not found in languages list")
            ELSE sink)

RECURSIVE vmcRangeLanguages(_, _, _, _)
\* yields <<langMap, sink>> after the loop over m.Languages
vmcRangeLanguages(m, j, langMap, sink) ==
    IF j > Len(m.Languages) THEN <<langMap, sink>>
    ELSE LET lang == m.Languages[j]
             s1 == IF lang = ""
                   THEN Add(sink, "metadata.languages", "language code cannot be empty")
                   ELSE sink
             s2 == IF lang \in langMap
                   THEN Add(s1, "metadata.languages", "duplicate language code: " \o lang)
                   ELSE s1
         IN vmcRangeLanguages(m, j + 1, langMap \cup {lang}, s2)

RECURSIVE vmcRangeDescription(_, _, _, _)
vmcRangeDescription(m, o, j, sink) ==
    IF j > Len(o) THEN sink
    ELSE LET lang == o[j]
             desc == m.Description[lang]
             s1 == IF lang = ""
                   THEN Add(sink, "metadata.description", "language code cannot be empty")
                   ELSE sink
             s2 == IF desc = ""
                   THEN Add(s1, "metadata.description." \o lang, "description cannot be empty")
                   ELSE s1
         IN vmcRangeDescription(m, o, j + 1, s2)

validateMetadataCollectErrors(m, t, sink) ==
    LET s1 == IF m.DatabaseType = ""
              THEN Add(sink, "metadata.database_type", "database_type is required")
              ELSE sink
        s2 == IF Cardinality(DOMAIN m.Description) = 0
              THEN Add(s1, "metadata.description", "at least one description is required")
              ELSE s1
    IN { vmcTimestamp(m, t,
            IF Len(m.Languages) > 0
            THEN LET after == vmcRangeLanguages(m, 1, {}, vmcRangeDescription(m, o1, 1, s2))
                 IN vmcRangeMembership(m, o2, 1, after[1], after[2])
            ELSE vmcRangeDescription(m, o1, 1, s2))
         : o1 \in Orders(DOMAIN m.Description), o2 \in Orders(DOMAIN m.Description) }

(***************************************************************************)
(* The inputs of the model.                                                *)
(***************************************************************************)
\* map[K]V over the key universe K and the value universe V
GoMaps(K, V) == UNION {[S -> V] : S \in SUBSET K}
\* slices of at most n elements of V
GoSlices(V, n) == UNION {[1..k -> V] : k \in 0..n}

DataKeys == {"", "a"}
\* JSON scalars as encoding/json decodes them into interface{}
JSONScalars == {GoString("x")}
\* values nested two levels below a record's data: scalars, null, {} and []
JSONLevel2 == JSONScalars \cup {Nil, GoMap(<< >>), GoSlice(<< >>)}
\* values one level below a record's data
JSONLevel1 ==
    JSONLevel2
      \cup {GoMap(f) : f \in GoMaps(DataKeys, JSONLevel2)}
      \cup {GoSlice(l) : l \in GoSlices(JSONLevel2, MaxListLen)}
\* the Data of a record: nil, or a map of values
RecordData == {NilMap} \cup {GoMap(f) : f \in GoMaps(DataKeys, JSONLevel1)}

JSONRecord(network, data) == [Network |-> network, Data |-> data]
JSONRecords == {JSONRecord(n, d) : n \in Networks, d \in RecordData}

LangCodes == {"", "en", "de"}
DescKeys == {"", "en"}
Metadata(type, description, languages, timestamp) ==
    [DatabaseType |-> type, Description |-> description,
     Languages |-> languages, BuildTimestamp |-> timestamp]
\* build_epoch: absent, or a time of 0..MaxNow+1 (MaxNow+1 is always in the future)
Timestamps == {<< >>} \cup {<<t>> : t \in 0..(MaxNow + 1)}
Metadatas ==
    {Metadata(ty, de, la, ts) :
        ty \in {"", "Test"}, de \in GoMaps(DescKeys, {"", "d"}),
        la \in GoSlices(LangCodes, MaxLangs), ts \in Timestamps}

(***************************************************************************)
(* SpecValidate: the validators as functions.  The argument is a metadata  *)
(* or a record; the fail-fast validator runs once and the collect-all      *)
(* validator twice, each on an empty sink.                                 *)
(***************************************************************************)
ValidateArgs ==
    {[kind |-> "metadata", m |-> m] : m \in Metadatas}
      \cup {[kind |-> "record", r |-> r, index |-> 0] : r \in JSONRecords}

\* the clock readings a call may see: the clock never runs backwards
ClockReadings == now..MaxNow

IdleMain ==
    /\ mode = "none" /\ doc = << >> /\ ve = << >> /\ inputData = << >>
    /\ idx = 0 /\ ipVersion = 0 /\ writer = << >> /\ attempts = << >>
    /\ inserted = << >> /\ writes = 0 /\ exitCode = << >>

InitValidate ==
    /\ IdleMain
    /\ pc = "fn_start"
    /\ now = 0
    /\ arg \in ValidateArgs
    /\ res = << >>

\* validateMetadata(m) / validateRecord(r)
CallFailFast ==
    /\ pc = "fn_start"
    /\ \/ /\ arg.kind = "metadata"
          /\ \E t \in ClockReadings :
               /\ now' = t
               /\ \E e \in validateMetadata(arg.m, t) : res' = [err |-> e, t0 |-> t]
       \/ /\ arg.kind = "record"
          /\ now' = now
          /\ \E e \in validateRecord(arg.r) : res' = [err |-> e, t0 |-> now]
    /\ pc' = "fn_failfast"
    /\ UNCHANGED <<arg, mainVars>>

\* validateMetadataCollectErrors(m, ve) / validateRecordCollectErrors(r, i, ve)
\* on ve = &ValidationErrors{}
CallCollect ==
    /\ pc = "fn_failfast"
    /\ \/ /\ arg.kind = "metadata"
          /\ \E t \in ClockReadings :
               /\ now' = t
               /\ \E s \in validateMetadataCollectErrors(arg.m, t, << >>) :
                    res' = [err |-> res.err, t0 |-> res.t0, ve1 |-> s, t1 |-> t]
       \/ /\ arg.kind = "record"
          /\ now' = now
          /\ \E s \in validateRecordCollectErrors(arg.r, arg.index, << >>) :
               res' = [err |-> res.err, t0 |-> res.t0, ve1 |-> s, t1 |-> now]
    /\ pc' = "fn_collect"
    /\ UNCHANGED <<arg, mainVars>>

\* the same collect-all call once more, on a fresh sink
CallCollectAgain ==
    /\ pc = "fn_collect"
    /\ \/ /\ arg.kind = "metadata"
          /\ \E t \in ClockReadings :
               /\ now' = t
               /\ \E s \in validateMetadataCollectErrors(arg.m, t, << >>) :
                    res' = [ve1 |-> res.ve1, t1 |-> res.t1, ve2 |-> s, t2 |-> t]
       \/ /\ arg.kind = "record"
          /\ now' = now
          /\ \E s \in validateRecordCollectErrors(arg.r, arg.index, << >>) :
               res' = [ve1 |-> res.ve1, t1 |-> res.t1, ve2 |-> s, t2 |-> now]
    /\ pc' = "fn_again"
    /\ UNCHANGED <<arg, mainVars>>

NextValidate == CallFailFast \/ CallCollect \/ CallCollectAgain

SpecValidate == InitValidate /\ [][NextValidate]_vars

(***************************************************************************)
(* Properties of the validators (SpecValidate).                            *)
(***************************************************************************)
ValidCIDR(s) == s \in (CIDRv4 \cup CIDRv6 \cup CIDRv4Mapped)

\* the value holds, at some depth of maps and lists, a null, an empty map or
\* an empty list
RECURSIVE ContainsHole(_)
ContainsHole(v) ==
    \/ v.t = "nil"
    \/ /\ v.t = "map"
       /\ (DOMAIN v.m = {} \/ \E k \in DOMAIN v.m : ContainsHole(v.m[k]))
    \/ /\ v.t = "slice"
       /\ (Len(v.l) = 0 \/ \E j \in 1..Len(v.l) : ContainsHole(v.l[j]))

\* some map of the value, at some depth, has the empty string as a key
RECURSIVE ContainsEmptyKey(_)
ContainsEmptyKey(v) ==
    \/ /\ v.t = "map"
       /\ ("" \in DOMAIN v.m \/ \E k \in DOMAIN v.m : ContainsEmptyKey(v.m[k]))
    \/ /\ v.t = "slice"
       /\ \E j \in 1..Len(v.l) : ContainsEmptyKey(v.l[j])

FieldsOf(sink) == {sink[j].Field : j \in 1..Len(sink)}

\* the errors of a sink with their multiplicities
BagOfErrors(sink) ==
    [e \in {sink[j] : j \in 1..Len(sink)} |->
        Cardinality({j \in 1..Len(sink) : sink[j] = e})]

BothValidatorsRan == pc = "fn_collect"

\* C3: fail-fast and collect-all give the same verdict: on the same metadata
\* (at the same clock reading) or the same record, the fail-fast validator
\* returns an error iff the collect-all validator appends at least one error
\* to an empty sink.
C3_SameVerdict ==
    (BothValidatorsRan /\ res.t0 = res.t1)
        => ((res.err # NoError) <=> HasErrors(res.ve1))

C3_Witness ==
    /\ BothValidatorsRan /\ res.t0 = res.t1
    /\ arg.kind = "metadata" /\ Len(arg.m.BuildTimestamp) > 0
    /\ res.err # NoError /\ Len(res.ve1) >= 2

\* C4: a record with a valid CIDR network whose data holds a null, an empty map
\* or an empty list at any depth fails validation in both modes, whatever the
\* iteration order of the maps.
C4_HolesRejected ==
    (/\ BothValidatorsRan /\ arg.kind = "record"
     /\ ValidCIDR(arg.r.Network) /\ arg.r.Data.t = "map"
     /\ ContainsHole(arg.r.Data))
        => (res.err # NoError /\ HasErrors(res.ve1))

C4_Witness ==
    /\ BothValidatorsRan /\ arg.kind = "record"
    /\ ValidCIDR(arg.r.Network) /\ arg.r.Data.t = "map"
    /\ DOMAIN arg.r.Data.m = {"a"}
    /\ arg.r.Data.m["a"].t = "slice" /\ Len(arg.r.Data.m["a"].l) = 2
    /\ arg.r.Data.m["a"].l[1] = GoString("x") /\ arg.r.Data.m["a"].l[2] = Nil
    /\ res.err # NoError /\ HasErrors(res.ve1)

\* a finite nesting of non-empty maps and non-empty lists ending in non-null
\* scalar leaves
WellNested(r) == ValidCIDR(r.Network) /\ r.Data.t = "map" /\ ~ContainsHole(r.Data)

\* C5 as claimed: every record with a valid network and well-nested data passes
\* both validators.
C5_Original ==
    (BothValidatorsRan /\ arg.kind = "record" /\ WellNested(arg.r))
        => (res.err = NoError /\ ~HasErrors(res.ve1))

\* C5 (amended): every record with a valid CIDR network whose data is a finite
\* nesting of non-empty maps and non-empty lists ending in non-null scalar
\* leaves, and none of whose maps has the empty string as a key, passes both
\* validators: validateRecord returns no error and validateRecordCollectErrors
\* appends nothing.
C5_WellNestedAccepted ==
    (/\ BothValidatorsRan /\ arg.kind = "record" /\ WellNested(arg.r)
     /\ ~ContainsEmptyKey(arg.r.Data))
        => (res.err = NoError /\ ~HasErrors(res.ve1))

C5_Witness ==
    /\ BothValidatorsRan /\ arg.kind = "record" /\ WellNested(arg.r)
    /\ ~ContainsEmptyKey(arg.r.Data)
    /\ DOMAIN arg.r.Data.m = {"a"}
    /\ arg.r.Data.m["a"].t = "map" /\ arg.r.Data.m["a"].m = [a |-> GoString("x")]
    /\ res.err = NoError /\ ~HasErrors(res.ve1)

\* the description names a language that a non-empty languages list lacks
LanguageMissing(m) ==
    /\ Len(m.Languages) > 0
    /\ \E lang \in DOMAIN m.Description :
         \A j \in 1..Len(m.Languages) : m.Languages[j] # lang

\* C7 as claimed: whatever the other fields are, both validators cite
\* metadata.languages.
C7_Original ==
    (BothValidatorsRan /\ arg.kind = "metadata" /\ LanguageMissing(arg.m))
        => /\ res.err # NoError
           /\ res.err[1].Field = "metadata.languages"
           /\ "metadata.languages" \in FieldsOf(res.ve1)

\* C7 (amended): for every metadata whose languages list is non-empty and whose
\* description names a language that is not in the list, validateMetadata
\* returns an error and validateMetadataCollectErrors appends an error whose
\* field is metadata.languages; the error validateMetadata returns has the field
\* metadata.languages when no earlier check fails, that is when database_type
\* is non-empty and no description entry has an empty language code or text.
C7_LanguagesCited ==
    (BothValidatorsRan /\ arg.kind = "metadata" /\ LanguageMissing(arg.m))
        => /\ res.err # NoError
           /\ "metadata.languages" \in FieldsOf(res.ve1)
           /\ (/\ arg.m.DatabaseType # ""
               /\ \A lang \in DOMAIN arg.m.Description :
                    lang # "" /\ arg.m.Description[lang] # "")
                => res.err[1].Field = "metadata.languages"

C7_Witness ==
    /\ BothValidatorsRan /\ arg.kind = "metadata" /\ LanguageMissing(arg.m)
    /\ arg.m.DatabaseType # "" /\ arg.m.Description = [en |-> "d"]
    /\ arg.m.Languages = <<"de">>
    /\ res.err = Fail("metadata.languages",
                      "description language 'en' not found in languages list")

CollectRanTwice == pc = "fn_again"

\* C8 as claimed: two collect-all runs on the same input give the same sequence
\* of errors.
C8_Original == CollectRanTwice => res.ve1 = res.ve2

\* C8 (amended): running collect-all validation twice on the same input, with
\* the same clock reading, yields the same verdict and the same errors with the
\* same multiplicities; the order of the errors of different keys of one map
\* may differ between the runs.
C8_SameErrorsUpToOrder ==
    (CollectRanTwice /\ res.t1 = res.t2)
        => /\ HasErrors(res.ve1) <=> HasErrors(res.ve2)
           /\ BagOfErrors(res.ve1) = BagOfErrors(res.ve2)

C8_Witness ==
    /\ CollectRanTwice /\ res.t1 = res.t2
    /\ Len(res.ve1) >= 2 /\ res.ve1 # res.ve2
    /\ BagOfErrors(res.ve1) = BagOfErrors(res.ve2)

\* the error sequences the data checks of collect-all validation may collect
\* for the data of record r, taken alone: those of the same record with a
\* network that parses
DataViolations(r, index) ==
    UNION {validateRecordCollectErrors(JSONRecord(n, r.Data), index, << >>) : n \in CIDRv4}

\* C14: collect-all record validation skips the data checks of a record only
\* when its network is empty or its data is nil.  For a record with an empty
\* network exactly one error (records[i].network, "network is required") is
\* appended, whatever its data; for a record with a non-empty network that does
\* not parse and non-nil data the network error is appended first and every
\* data violation is then collected as for a record whose network parses; and
\* a hole or an empty key in such data is reported.
C14_ShortCircuitOnlyOnEmptyNetworkOrNilData ==
    (BothValidatorsRan /\ arg.kind = "record") =>
        LET prefix == "records[" \o Itoa(arg.index) \o "]" IN
        /\ arg.r.Network = ""
             => res.ve1 = <<ValidationError(prefix \o ".network", "network is required")>>
        /\ (arg.r.Network # "" /\ ParseCIDRFails(arg.r.Network) /\ arg.r.Data.t # "nilmap")
             => /\ Len(res.ve1) >= 1
                /\ res.ve1[1] = ValidationError(prefix \o ".network",
                                   "invalid CIDR format: " \o ParseCIDRError(arg.r.Network))
                /\ Tail(res.ve1) \in DataViolations(arg.r, arg.index)
                /\ (ContainsHole(arg.r.Data) \/ ContainsEmptyKey(arg.r.Data))
                     => \E j \in 2..Len(res.ve1) :
                          /\ res.ve1[j].Field # prefix \o ".network"
                          /\ res.ve1[j].Message \in
                               {"value cannot be nil", "map cannot be empty",
                                "array cannot be empty", "map key cannot be empty"}

C14_Witness ==
    /\ BothValidatorsRan /\ arg.kind = "record"
    /\ arg.r.Network \in Malformed
    /\ arg.r.Data = GoMap([a |-> GoSlice(<<Nil, GoMap(<< >>)>>)])
    /\ res.ve1 = << ValidationError("records[0].network",
                                    "invalid CIDR format: " \o ParseCIDRError(arg.r.Network)),
                    ValidationError("records[0].data.a[0]", "value cannot be nil"),
                    ValidationError("records[0].data.a[1]", "map cannot be empty") >>

(***************************************************************************)
(* detectIPVersion.                                                        *)
(***************************************************************************)
RECURSIVE divRangeRecords(_, _, _, _)
\* the loop of detectIPVersion from the j-th record: <<hasIPv4, hasIPv6>> at
\* its end or at its break
divRangeRecords(records, j, hasIPv4, hasIPv6) ==
    IF j > Len(records) THEN <<hasIPv4, hasIPv6>>
    ELSE IF ParseCIDRFails(records[j].Network)
    THEN divRangeRecords(records, j + 1, hasIPv4, hasIPv6)
    ELSE LET h4 == hasIPv4 \/ To4NotNil(records[j].Network)
             h6 == hasIPv6 \/ ~To4NotNil(records[j].Network)
         IN IF h4 /\ h6 THEN <<h4, h6>>
            ELSE divRangeRecords(records, j + 1, h4, h6)

\* faulty variant: the decision tests hasIPv4 before hasIPv6
detectIPVersionPrefersIPv4(records) ==
    LET found == divRangeRecords(records, 1, FALSE, FALSE)
    IN IF found[1] THEN 4 ELSE 6

detectIPVersion(records) ==
    LET found == divRangeRecords(records, 1, FALSE, FALSE)
        hasIPv4 == found[1]
        hasIPv6 == found[2]
    IN IF hasIPv4 /\ hasIPv6 THEN 6
       ELSE IF hasIPv6 THEN 6
       ELSE IF hasIPv4 THEN 4
       ELSE 6

(***************************************************************************)
(* The typed-value converter.  A typed value (mmdbtype.DataType) is a      *)
(* record tagged by its mmdbtype in field mt.  Every conversion yields     *)
(* [val, err], err being NoError or an error text.                         *)
(***************************************************************************)
MString(s) == [mt |-> "String", s |-> s]
MNumber(type, n) == [mt |-> type, n |-> n]
MBool(b) == [mt |-> "Bool", b |-> b]
MBytes(b) == [mt |-> "Bytes", b |-> b]
MSlice(l) == [mt |-> "Slice", l |-> l]
MMap(m) == [mt |-> "Map", m |-> m]

Converted(v) == [val |-> v, err |-> NoError]
ConvertError(text) == [val |-> MString(""), err |-> <<text>>]

\* fmt.Sprintf("%v", v) of the values the fallback of handleCustomType meets
SprintfV(v) ==
    IF v.t \in {"int8", "int16", "int64", "uint8", "uint16"} THEN ToString(v.n)
    ELSE v.t

RECURSIVE convertToMMDBType(_)
RECURSIVE convertSlice(_)
RECURSIVE convertMap(_)
RECURSIVE handleCustomType(_)
RECURSIVE convertReflectSlice(_)
RECURSIVE convertReflectMap(_)
RECURSIVE convertReflectStruct(_)

\* faulty variant: the elements of a list are stored in reverse order
convertSliceReversed(slice) ==
    LET items == [j \in 1..Len(slice) |-> convertToMMDBType(slice[j])]
    IN Converted(MSlice([j \in 1..Len(slice) |-> items[Len(slice) + 1 - j].val]))

\* slice is the sequence of the elements
convertSlice(slice) ==
    LET items == [j \in 1..Len(slice) |-> convertToMMDBType(slice[j])]
        failed == {j \in 1..Len(slice) : items[j].err # NoError}
    IN IF failed = {}
       THEN Converted(MSlice([j \in 1..Len(slice) |-> items[j].val]))
       ELSE LET j == CHOOSE f \in failed : \A g \in failed : f <= g
            IN ConvertError("converting slice item " \o Itoa(j - 1) \o ": " \o items[j].err[1])

\* m is the function of the map; the result is the same for every iteration
\* order unless a value fails to convert, and then the first failure met is
\* returned: the operator yields the failure of one such key
convertMap(m) ==
    LET items == [k \in DOMAIN m |-> convertToMMDBType(m[k])]
        failed == {k \in DOMAIN m : items[k].err # NoError}
    IN IF failed = {}
       THEN Converted(MMap([k \in DOMAIN m |-> items[k].val]))
       ELSE LET k == CHOOSE f \in failed : TRUE
            IN ConvertError("converting map key " \o k \o ": " \o items[k].err[1])

\* val is the sequence of the elements of a slice or array of a static element
\* type
convertReflectSlice(val) ==
    LET items == [j \in 1..Len(val) |-> convertToMMDBType(val[j])]
        failed == {j \in 1..Len(val) : items[j].err # NoError}
    IN IF failed = {}
       THEN Converted(MSlice([j \in 1..Len(val) |-> items[j].val]))
       ELSE LET j == CHOOSE f \in failed : \A g \in failed : f <= g
            IN ConvertError("converting reflect slice item " \o Itoa(j - 1)
                              \o ": " \o items[j].err[1])

\* val is the function of a map of a static type, its keys printed by %v
convertReflectMap(val) ==
    LET items == [k \in DOMAIN val |-> convertToMMDBType(val[k])]
        failed == {k \in DOMAIN val : items[k].err # NoError}
    IN IF failed = {}
       THEN Converted(MMap([k \in DOMAIN val |-> items[k].val]))
       ELSE LET k == CHOOSE f \in failed : TRUE
            IN ConvertError("converting reflect map key " \o k \o ": " \o items[k].err[1])

\* the name a struct field is stored under: its json tag, else its own name
FieldName(f) == IF f.tag # "" THEN f.tag ELSE f.name

\* val is the sequence of the fields [name, tag, exported, value] of a struct
convertReflectStruct(val) ==
    LET kept == {j \in 1..Len(val) : val[j].exported}
        items == [j \in kept |-> convertToMMDBType(val[j].value)]
        failed == {j \in kept : items[j].err # NoError}
        last(n) == CHOOSE j \in kept :
                     /\ FieldName(val[j]) = n
                     /\ \A g \in kept : FieldName(val[g]) = n => g <= j
    IN IF failed = {}
       THEN Converted(MMap([n \in {FieldName(val[j]) : j \in kept} |-> items[last(n)].val]))
       ELSE LET j == CHOOSE f \in failed : \A g \in failed : f <= g
            IN ConvertError("converting struct field " \o FieldName(val[j])
                              \o ": " \o items[j].err[1])

\* reflect.Kind dispatch; a pointer holds <<>> (nil) or <<value>>
handleCustomType(v) ==
    IF v.t = "typedslice" THEN convertReflectSlice(v.l)
    ELSE IF v.t = "typedmap" THEN convertReflectMap(v.m)
    ELSE IF v.t = "struct" THEN convertReflectStruct(v.f)
    ELSE IF v.t = "ptr"
    THEN IF Len(v.p) = 0 THEN Converted(MString(""))
         ELSE convertToMMDBType(v.p[1])
    ELSE Converted(MString(SprintfV(v)))

convertToMMDBType(data) ==
    IF data.t = "nil" THEN Converted(MString(""))
    ELSE IF data.t = "string" THEN Converted(MString(data.s))
    ELSE IF data.t = "int" THEN Converted(MNumber("Int32", data.n))
    ELSE IF data.t = "int32" THEN Converted(MNumber("Int32", data.n))
    ELSE IF data.t = "float32" THEN Converted(MNumber("Float32", data.n))
    ELSE IF data.t = "float64" THEN Converted(MNumber("Float64", data.n))
    ELSE IF data.t = "uint" THEN Converted(MNumber("Uint32", data.n))
    ELSE IF data.t = "uint32" THEN Converted(MNumber("Uint32", data.n))
    ELSE IF data.t = "uint64" THEN Converted(MNumber("Uint64", data.n))
    ELSE IF data.t = "bool" THEN Converted(MBool(data.b))
    ELSE IF data.t = "slice" THEN convertSlice(data.l)
    ELSE IF data.t = "map" THEN convertMap(data.m)
    ELSE IF data.t = "nilmap" THEN convertMap(<< >>)
    ELSE IF data.t = "bytes" THEN Converted(MBytes(data.b))
    ELSE handleCustomType(data)

(***************************************************************************)
(* readJSONFile, validateJSONFile, processRecord.                          *)
(***************************************************************************)
InputData(metadata, records) == [Metadata |-> metadata, Records |-> records]

\* the zero Metadata of InputData{} and of the legacy shape
EmptyMetadata == Metadata("", << >>, << >>, << >>)

\* The content of a file, by what encoding/json makes of it:
\*   "envelope"        an object whose fields decode: {metadata, records}
\*   "null"            the literal null
\*   "object_mistyped" an object one field of which has the wrong JSON type;
\*                     Metadata and Records are what decodes of the others
\*   "legacy"          a list whose elements decode as records
\*   "list_mistyped"   a list one element of which has the wrong JSON type;
\*                     Records is what decodes of it
\*   "invalid"         text that is not JSON
\* json.Unmarshal checks the syntax before it stores anything; on a value of the
\* wrong type it stores what decodes and returns the first type error.

\* json.Unmarshal(data, &input): [input, err], input being the InputData after
\* the call
UnmarshalInputData(file, input) ==
    IF file.shape = "envelope"
    THEN [input |-> InputData(file.Metadata, file.Records), err |-> NoError]
    ELSE IF file.shape = "null"
    THEN [input |-> input, err |-> NoError]
    ELSE IF file.shape = "object_mistyped"
    THEN [input |-> InputData(file.Metadata, file.Records),
          err |-> <<"json: cannot unmarshal string into Go struct field">>]
    ELSE IF file.shape \in {"legacy", "list_mistyped"}
    THEN [input |-> input,
          err |-> <<"json: cannot unmarshal array into Go value of type main.InputData">>]
    ELSE [input |-> input, err |-> <<"invalid character">>]

\* json.Unmarshal(data, &records) on a nil []JSONRecord: [records, err]
UnmarshalRecords(file) ==
    IF file.shape = "legacy"
    THEN [records |-> file.Records, err |-> NoError]
    ELSE IF file.shape = "null"
    THEN [records |-> << >>, err |-> NoError]
    ELSE IF file.shape = "list_mistyped"
    THEN [records |-> file.Records,
          err |-> <<"json: cannot unmarshal number into Go struct field">>]
    ELSE IF file.shape \in {"envelope", "object_mistyped"}
    THEN [records |-> << >>,
          err |-> <<"json: cannot unmarshal object into Go value of type []main.JSONRecord">>]
    ELSE [records |-> << >>, err |-> <<"invalid character">>]

\* faulty variant: the legacy parse is not attempted, and the error of the
\* envelope parse is returned
readJSONFileFirstError(file) ==
    LET first == UnmarshalInputData(file, InputData(EmptyMetadata, << >>)) IN
    IF first.err # NoError
    THEN [data |-> InputData(EmptyMetadata, << >>),
          err |-> <<"parsing JSON: " \o first.err[1]>>]
    ELSE [data |-> first.input, err |-> NoError]

\* readJSONFile on a file that os.ReadFile could read: [data, err]
readJSONFile(file) ==
    LET first == UnmarshalInputData(file, InputData(EmptyMetadata, << >>)) IN
    IF first.err # NoError
    THEN LET second == UnmarshalRecords(file) IN
         IF second.err # NoError
         THEN [data |-> InputData(EmptyMetadata, << >>),
               err |-> <<"parsing JSON: " \o second.err[1]>>]
         ELSE [data |-> InputData(first.input.Metadata, second.records),
               err |-> NoError]
    ELSE [data |-> first.input, err |-> NoError]

RECURSIVE vjfRangeRecords(_, _, _)
\* for i, record := range inputData.Records of validateJSONFile
vjfRangeRecords(records, j, sink) ==
    IF j > Len(records) THEN {sink}
    ELSE UNION {vjfRangeRecords(records, j + 1, s2) :
                  s2 \in validateRecordCollectErrors(records[j], j - 1, sink)}

\* validateJSONFile on a file that readJSONFile could decode: the sinks it may
\* end with; it returns an error iff the sink has errors.  t is the reading of
\* the clock.
validateJSONFile(data, t) ==
    UNION {vjfRangeRecords(data.Records, 1, s1) :
             s1 \in validateMetadataCollectErrors(data.Metadata, t, << >>)}

\* processRecord: what becomes of the record, given whether the builder accepts
\* the insert
processRecord(record, accepted) ==
    IF ParseCIDRFails(record.Network) THEN "parse_error"
    ELSE IF convertToMMDBType(record.Data).err # NoError THEN "convert_error"
    ELSE IF ~accepted THEN "insert_error"
    ELSE "inserted"

(***************************************************************************)
(* Spec: a run of main() in check mode (--check) or build mode (--input).  *)
(***************************************************************************)
DefaultRecordSize == 28

MainDescriptions == {<< >>, [en |-> "d"], [de |-> "d"]}
MainLanguages == {<< >>, <<"en">>, <<"de">>}
MainTimestamps == {<< >>, <<0>>, <<MaxNow + 1>>}
MainMetadatas ==
    {Metadata(ty, de, la, ts) :
        ty \in {"", "Test"}, de \in MainDescriptions,
        la \in MainLanguages, ts \in MainTimestamps}
MainRecords ==
    {JSONRecord(n, d) :
        n \in Malformed \cup CIDRv4 \cup CIDRv6,
        d \in {GoMap(<< >>), GoMap([a |-> GoString("x")]), GoMap([a |-> Nil])}}
MainRecordLists == GoSlices(MainRecords, MaxRecords)
MainFiles ==
    {[shape |-> "envelope", Metadata |-> m, Records |-> rs] :
        m \in MainMetadatas, rs \in MainRecordLists}
      \cup {[shape |-> "legacy", Records |-> rs] : rs \in MainRecordLists}
      \cup {[shape |-> "invalid"]}

\* the readings of the clock a validation of metadata m may see; the clock is
\* read only when the metadata carries a build timestamp
ClockReadingsFor(m) == IF Len(m.BuildTimestamp) > 0 THEN ClockReadings ELSE {now}

Init ==
    /\ pc = "start"
    /\ now = 0
    /\ mode \in {"check", "build"}
    /\ doc \in MainFiles
    /\ ve = << >>
    /\ inputData = InputData(EmptyMetadata, << >>)
    /\ idx = 0
    /\ ipVersion = 0
    /\ writer = << >>
    /\ attempts = << >>
    /\ inserted = << >>
    /\ writes = 0
    /\ exitCode = << >>
    /\ arg = << >>
    /\ res = << >>

\* faulty variant: the fatal log only logs, and the run goes on
FatalOnlyLogs(cont) == pc' = cont /\ exitCode' = exitCode

\* log.Fatal: the process exits with status 1; cont is where the run would go on
Fatal(cont) == pc' = "exit" /\ exitCode' = <<1>>

\* check mode: validateJSONFile, then os.Exit(1) or os.Exit(0)
CheckMode ==
    /\ pc = "start" /\ mode = "check"
    /\ LET file == readJSONFile(doc) IN
       IF file.err # NoError
       THEN /\ UNCHANGED <<ve, now>>
            /\ exitCode' = <<1>>
       ELSE \E t \in ClockReadingsFor(file.data.Metadata) :
              /\ now' = t
              /\ \E s \in validateJSONFile(file.data, t) :
                   /\ ve' = s
                   /\ exitCode' = IF HasErrors(s) THEN <<1>> ELSE <<0>>
    /\ pc' = "exit"
    /\ UNCHANGED <<mode, doc, inputData, idx, ipVersion, writer, attempts,
                   inserted, writes, arg, res>>

\* build mode: "Validate input file before processing"
BuildValidateFile ==
    /\ pc = "start" /\ mode = "build"
    /\ LET file == readJSONFile(doc) IN
       IF file.err # NoError
       THEN /\ UNCHANGED <<ve, now>>
            /\ Fatal("read")
       ELSE \E t \in ClockReadingsFor(file.data.Metadata) :
              /\ now' = t
              /\ \E s \in validateJSONFile(file.data, t) :
                   /\ ve' = s
                   /\ IF HasErrors(s) THEN Fatal("read")
                      ELSE pc' = "read" /\ exitCode' = exitCode
    /\ UNCHANGED <<mode, doc, inputData, idx, ipVersion, writer, attempts,
                   inserted, writes, arg, res>>

\* build mode: "Read and parse JSON file"
BuildReadFile ==
    /\ pc = "read"
    /\ LET file == readJSONFile(doc) IN
       /\ inputData' = file.data
       /\ IF file.err # NoError THEN Fatal("validate_metadata")
          ELSE pc' = "validate_metadata" /\ exitCode' = exitCode
    /\ UNCHANGED <<now, mode, doc, ve, idx, ipVersion, writer, attempts,
                   inserted, writes, arg, res>>

\* build mode: "Validate metadata"
BuildValidateMetadata ==
    /\ pc = "validate_metadata"
    /\ \E t \in ClockReadingsFor(inputData.Metadata) :
         /\ now' = t
         /\ \E e \in validateMetadata(inputData.Metadata, t) :
              IF e # NoError THEN Fatal("validate_records")
              ELSE pc' = "validate_records" /\ exitCode' = exitCode
    /\ idx' = 0
    /\ UNCHANGED <<mode, doc, ve, inputData, ipVersion, writer, attempts,
                   inserted, writes, arg, res>>

\* build mode: "Validate records", one iteration of the loop
BuildValidateRecord ==
    /\ pc = "validate_records" /\ idx < Len(inputData.Records)
    /\ \E e \in validateRecord(inputData.Records[idx + 1]) :
         IF e # NoError THEN Fatal("validate_records")
         ELSE pc' = pc /\ exitCode' = exitCode
    /\ idx' = idx + 1
    /\ UNCHANGED <<now, mode, doc, ve, inputData, ipVersion, writer, attempts,
                   inserted, writes, arg, res>>

\* build mode: "Detect IP version from records", once the loop has ended
BuildDetectIPVersion ==
    /\ pc = "validate_records" /\ idx = Len(inputData.Records)
    /\ ipVersion' = detectIPVersion(inputData.Records)
    /\ pc' = "defaults"
    /\ UNCHANGED <<now, mode, doc, ve, inputData, idx, writer, attempts,
                   inserted, writes, exitCode, arg, res>>

\* build mode: "Set default metadata values"
BuildSetDefaults ==
    /\ pc = "defaults"
    /\ LET m == inputData.Metadata
           languages == IF Len(m.Languages) = 0 THEN <<"en">> ELSE m.Languages
       IN IF Len(m.BuildTimestamp) = 0
          THEN \E t \in ClockReadings :
                 /\ now' = t
                 /\ inputData' = InputData(
                        Metadata(m.DatabaseType, m.Description, languages, <<t>>),
                        inputData.Records)
          ELSE /\ now' = now
               /\ inputData' = InputData(
                      Metadata(m.DatabaseType, m.Description, languages, m.BuildTimestamp),
                      inputData.Records)
    /\ pc' = "new_writer"
    /\ UNCHANGED <<mode, doc, ve, idx, ipVersion, writer, attempts,
                   inserted, writes, exitCode, arg, res>>

\* build mode: "Create MMDB writer with metadata"; mmdbwriter.New may fail.
\* The Options carry no BuildEpoch, so the tree takes as its build epoch the
\* reading of the clock at the call of New.
BuildNewWriter ==
    /\ pc = "new_writer"
    /\ \E ok \in BOOLEAN :
         IF ok
         THEN \E t \in ClockReadings :
                /\ now' = t
                /\ writer' = << [DatabaseType |-> inputData.Metadata.DatabaseType,
                                 Description |-> inputData.Metadata.Description,
                                 Languages |-> inputData.Metadata.Languages,
                                 IPVersion |-> ipVersion,
                                 RecordSize |-> DefaultRecordSize,
                                 BuildEpoch |-> t] >>
                /\ pc' = "process" /\ exitCode' = exitCode
         ELSE /\ now' = now
              /\ writer' = writer
              /\ Fatal("process")
    /\ idx' = 0
    /\ UNCHANGED <<mode, doc, ve, inputData, ipVersion, attempts,
                   inserted, writes, arg, res>>

\* faulty variant: a record that fails to insert ends the loop
BuildProcessRecordStopsOnError ==
    /\ pc = "process" /\ idx < Len(inputData.Records)
    /\ attempts' = Append(attempts, idx)
    /\ \E accepted \in BOOLEAN :
         IF processRecord(inputData.Records[idx + 1], accepted) = "inserted"
         THEN inserted' = Append(inserted, idx) /\ idx' = idx + 1
         ELSE inserted' = inserted /\ idx' = Len(inputData.Records)
    /\ UNCHANGED <<pc, now, mode, doc, ve, inputData, ipVersion, writer,
                   writes, exitCode, arg, res>>

\* build mode: "Process records", one iteration: processRecord, whose error is
\* logged as a warning; the builder may reject the insert
BuildProcessRecord ==
    /\ pc = "process" /\ idx < Len(inputData.Records)
    /\ attempts' = Append(attempts, idx)
    /\ \E accepted \in BOOLEAN :
         inserted' = IF processRecord(inputData.Records[idx + 1], accepted) = "inserted"
                     THEN Append(inserted, idx)
                     ELSE inserted
    /\ idx' = idx + 1
    /\ UNCHANGED <<pc, now, mode, doc, ve, inputData, ipVersion, writer,
                   writes, exitCode, arg, res>>

\* build mode: "Write the database to file", once the loop has ended:
\* writeDatabase creates the file and calls writer.WriteTo; either may fail
BuildWriteDatabase ==
    /\ pc = "process" /\ idx = Len(inputData.Records)
    /\ \E created \in BOOLEAN, written \in BOOLEAN :
         IF ~created
         THEN writes' = writes /\ Fatal("done")
         ELSE /\ writes' = writes + 1
              /\ IF ~written THEN Fatal("done")
                 ELSE pc' = "done" /\ exitCode' = <<0>>
    /\ UNCHANGED <<now, mode, doc, ve, inputData, idx, ipVersion, writer,
                   attempts, inserted, arg, res>>

Next ==
    \/ CheckMode
    \/ BuildValidateFile
    \/ BuildReadFile
    \/ BuildValidateMetadata
    \/ BuildValidateRecord
    \/ BuildDetectIPVersion
    \/ BuildSetDefaults
    \/ BuildNewWriter
    \/ BuildProcessRecord
    \/ BuildWriteDatabase

Spec == Init /\ [][Next]_vars

(***************************************************************************)
(* Properties of a run of main() (Spec).                                   *)
(***************************************************************************)
\* the builder has been constructed or used
BuilderTouched == writer # << >> \/ attempts # << >> \/ inserted # << >> \/ writes > 0

\* the file decodes, and its metadata and every record pass validation at the
\* clock reading t
DocumentValid(file, t) ==
    LET r == readJSONFile(file) IN
    /\ r.err = NoError
    /\ validateMetadata(r.data.Metadata, t) = {NoError}
    /\ \A j \in 1..Len(r.data.Records) : validateRecord(r.data.Records[j]) = {NoError}

\* C1: in build mode a document whose metadata or records violate a validation
\* rule ends the run fatally before the builder is constructed: wherever the
\* builder has been constructed, inserted into or written, the document passed
\* validation; and once validateJSONFile has collected an error the run has
\* exited with status 1 and no builder.
C1_ValidationBeforeBuilder ==
    /\ BuilderTouched => (mode = "build" /\ DocumentValid(doc, now))
    /\ (mode = "build" /\ HasErrors(ve))
         => (pc = "exit" /\ exitCode = <<1>> /\ ~BuilderTouched)

C1_Witness ==
    /\ mode = "build" /\ pc = "exit" /\ exitCode = <<1>> /\ ~BuilderTouched
    /\ doc.shape = "envelope" /\ Len(doc.Records) = 2
    /\ validateMetadata(doc.Metadata, now) = {NoError}
    /\ validateRecord(doc.Records[1]) = {NoError}
    /\ ve = <<ValidationError("records[1].data.a", "value cannot be nil")>>

\* the build phase has begun: the builder exists
BuildPhase == mode = "build" /\ writer # << >>
RunEnded == pc \in {"done", "exit"}
\* the Go indices 0..n-1 in order
FirstIndices(n) == [j \in 1..n |-> j - 1]

\* C2 as claimed: once the build phase has begun the run ends with every record
\* attempted once, in order, and exactly one write.
C2_Original ==
    (BuildPhase /\ RunEnded)
        => (attempts = FirstIndices(Len(inputData.Records)) /\ writes = 1)

\* C2 (amended): in build mode with a document that passed validation, the
\* build phase attempts exactly one insert per record, in input order; when the
\* attempt for a record fails that record is skipped and every later record is
\* still attempted; builder.write is invoked at most once, only after the last
\* record has been attempted, and exactly once unless creating the output file
\* fails (which is fatal), whatever number of inserts failed.
C2_AttemptsInOrderThenWrite ==
    BuildPhase =>
        /\ attempts = FirstIndices(Len(attempts))
        /\ Len(attempts) <= Len(inputData.Records)
        /\ \A j \in 1..Len(inserted) : \E k \in 1..Len(attempts) : attempts[k] = inserted[j]
        /\ writes <= 1
        /\ writes = 1 => Len(attempts) = Len(inputData.Records)
        /\ RunEnded => Len(attempts) = Len(inputData.Records)
        /\ pc = "done" => writes = 1

C2_Witness ==
    /\ BuildPhase /\ pc = "done" /\ writes = 1
    /\ Len(inputData.Records) = 2
    /\ attempts = <<0, 1>> /\ inserted = <<1>>

\* valid metadata, and one record with a valid network and the data {}
EmptyDataDocument ==
    /\ doc.shape = "envelope"
    /\ validateMetadata(doc.Metadata, now) = {NoError}
    /\ Len(doc.Records) = 1
    /\ ValidCIDR(doc.Records[1].Network)
    /\ doc.Records[1].Data = GoMap(<< >>)

\* C6: check mode on a document with valid metadata whose only record has a
\* valid network and the data {} collects exactly one error, for records[0].data
\* with the message "data cannot be empty", and exits with failure status.
C6_ExactlyOneError ==
    (mode = "check" /\ pc = "exit" /\ EmptyDataDocument)
        => /\ ve = <<ValidationError("records[0].data", "data cannot be empty")>>
           /\ exitCode = <<1>>

\* the metadata of the input file, as readJSONFile decodes it
InputMetadata == readJSONFile(doc).data.Metadata

\* database type, description and languages of the builder are the input's,
\* the languages being ["en"] when the input has none
WriterMatchesInput ==
    /\ writer[1].DatabaseType = InputMetadata.DatabaseType
    /\ writer[1].Description = InputMetadata.Description
    /\ writer[1].Languages =
         IF Len(InputMetadata.Languages) = 0 THEN <<"en">> ELSE InputMetadata.Languages

\* the build epoch of the builder is the input's build_epoch when the input has
\* one, and else a reading of the clock not before the defaults were filled
WriterBuildEpochMatchesInput ==
    IF Len(InputMetadata.BuildTimestamp) > 0
    THEN writer[1].BuildEpoch = InputMetadata.BuildTimestamp[1]
    ELSE /\ inputData.Metadata.BuildTimestamp[1] <= writer[1].BuildEpoch
         /\ writer[1].BuildEpoch <= now

\* C13: in build mode the builder is constructed from the validated,
\* defaults-filled metadata: its database type, description and languages equal
\* the input's (languages = ["en"] when absent), and its build timestamp is the
\* input's build_epoch when one is provided and the current time only when it
\* is absent.
C13_BuilderMetadataMatchesInput ==
    (mode = "build" /\ writer # << >>)
        => (WriterMatchesInput /\ WriterBuildEpochMatchesInput)

\* the part of C13 the builder keeps: database type, description and languages
C13_TypeDescriptionLanguagesKept ==
    (mode = "build" /\ writer # << >>) => WriterMatchesInput

\* every key of the description of m is a member of its languages list
DescriptionWithinLanguages(m) ==
    \A lang \in DOMAIN m.Description :
        \E j \in 1..Len(m.Languages) : m.Languages[j] = lang

\* a build run whose metadata has passed validateMetadata
MetadataValidated ==
    /\ mode = "build"
    /\ \/ pc \in {"validate_records", "defaults", "new_writer", "process", "done"}
       \/ writer # << >>

\* C15: the description-language-subset-of-languages invariant holds at every
\* point of a build run after validation has passed, including after the
\* defaults are filled and at the construction of the builder: whenever the
\* languages list of the metadata is non-empty, every key of the description
\* map is a member of it.
C15_DescriptionSubsetOfLanguages ==
    MetadataValidated =>
        /\ Len(inputData.Metadata.Languages) > 0
             => DescriptionWithinLanguages(inputData.Metadata)
        /\ (writer # << >> /\ Len(writer[1].Languages) > 0)
             => DescriptionWithinLanguages(writer[1])

\* the part of C15 that holds: the invariant holds from validation up to the
\* filling of the defaults
C15_HoldsBeforeDefaults ==
    (mode = "build" /\ pc \in {"validate_records", "defaults"}
     /\ Len(inputData.Metadata.Languages) > 0)
        => DescriptionWithinLanguages(inputData.Metadata)

(***************************************************************************)
(* SpecDetect: detectIPVersion as a function, on a list of records and on  *)
(* a reordering of that list.                                              *)
(***************************************************************************)
MaxDetectRecords == 3

DetectArgs ==
    GoSlices({JSONRecord(n, GoMap([a |-> GoString("x")])) : n \in Networks},
             MaxDetectRecords)

\* the reorderings of the list l
Reorderings(l) ==
    {[j \in 1..Len(l) |-> l[o[j]]] : o \in Orders(1..Len(l))}

InitDetect ==
    /\ IdleMain
    /\ pc = "fn_start"
    /\ now = 0
    /\ arg \in DetectArgs
    /\ res = << >>

CallDetect ==
    /\ pc = "fn_start"
    /\ res' = [version |-> detectIPVersion(arg)]
    /\ pc' = "fn_detected"
    /\ UNCHANGED <<now, arg, mainVars>>

CallDetectReordered ==
    /\ pc = "fn_detected"
    /\ \E l \in Reorderings(arg) :
         res' = [version |-> res.version, reordered |-> l,
                 versionReordered |-> detectIPVersion(l)]
    /\ pc' = "fn_reordered"
    /\ UNCHANGED <<now, arg, mainVars>>

NextDetect == CallDetect \/ CallDetectReordered

SpecDetect == InitDetect /\ [][NextDetect]_vars

\* The family of a network literal is the one of the address net.ParseCIDR
\* returns, as net.IP.To4 tells it: an IPv4-mapped IPv6 literal counts as IPv4.
IPv4Networks == CIDRv4 \cup CIDRv4Mapped
IPv6Networks == CIDRv6

\* C9: detectIPVersion returns 4 iff some record's network parses as an IPv4
\* network and none parses as an IPv6 network, and 6 in every other case (IPv6
\* present, both present, empty list, nothing parseable); unparseable networks
\* do not affect the result, and neither does the order of the records.
C9_DecisionTable ==
    (pc \in {"fn_detected", "fn_reordered"}) =>
        /\ res.version \in {4, 6}
        /\ res.version = 4 <=>
             /\ \E j \in 1..Len(arg) : arg[j].Network \in IPv4Networks
             /\ \A j \in 1..Len(arg) : arg[j].Network \notin IPv6Networks
        /\ res.version =
             detectIPVersion(SelectSeq(arg, LAMBDA r : r.Network \in IPv4Networks \cup IPv6Networks))
        /\ pc = "fn_reordered" => res.versionReordered = res.version

C9_Witness ==
    /\ pc = "fn_reordered"
    /\ Len(arg) = 3
    /\ arg[1].Network \in CIDRv4 /\ arg[2].Network \in CIDRv6 /\ arg[3].Network \in Malformed
    /\ res.reordered[1] = arg[3] /\ res.reordered[2] = arg[2] /\ res.reordered[3] = arg[1]
    /\ res.version = 6 /\ res.versionReordered = 6

(***************************************************************************)
(* SpecConvert: convertToMMDBType as a function.  The integers are drawn   *)
(* from a range that every integer type of the model holds, so that the    *)
(* narrowing conversions of Go keep their value.                           *)
(***************************************************************************)
SignedTypes == {"int", "int8", "int16", "int32", "int64"}
UnsignedTypes == {"uint", "uint8", "uint16", "uint32", "uint64"}

ConvertArgs ==
    {GoNumber(ty, n) : ty \in SignedTypes, n \in {-1, 0, 1}}
      \cup {GoNumber(ty, n) : ty \in UnsignedTypes, n \in {0, 1, 2}}
      \cup {GoNumber(ty, n) : ty \in {"float32", "float64"}, n \in {0, 1}}
      \cup {GoBool(b) : b \in BOOLEAN}
      \cup {[t |-> "bytes", b |-> <<1, 2>>]}
      \cup {[t |-> "ptr", p |-> << >>], [t |-> "ptr", p |-> <<GoNumber("int64", 1)>>]}
      \cup {[t |-> "typedslice", l |-> <<GoString("x"), GoString("y")>>]}
      \cup {[t |-> "typedmap", m |-> [a |-> GoNumber("int", 1)]]}
      \cup {[t |-> "struct",
             f |-> << [name |-> "City", tag |-> "city", exported |-> TRUE,
                       value |-> GoString("x")],
                      [name |-> "Code", tag |-> "", exported |-> TRUE,
                       value |-> GoNumber("uint8", 2)],
                      [name |-> "hidden", tag |-> "", exported |-> FALSE,
                       value |-> Nil] >>]}
      \cup JSONLevel1
      \cup {d \in RecordData : d.t = "map" => Cardinality(DOMAIN d.m) <= 1}

InitConvert ==
    /\ IdleMain
    /\ pc = "fn_start"
    /\ now = 0
    /\ arg \in ConvertArgs
    /\ res = << >>

CallConvert ==
    /\ pc = "fn_start"
    /\ res' = convertToMMDBType(arg)
    /\ pc' = "fn_converted"
    /\ UNCHANGED <<now, arg, mainVars>>

NextConvert == CallConvert

SpecConvert == InitConvert /\ [][NextConvert]_vars

\* C10: convertToMMDBType maps a value of every signed integer type (int, int8,
\* int16, int32, int64) to the Int32 typed value and a value of every unsigned
\* integer type to the Uint32 or Uint64 typed value; no integer is converted to
\* a string or another non-integer typed value.
C10_IntegersStayIntegers ==
    (pc = "fn_converted" /\ arg.t \in SignedTypes \cup UnsignedTypes)
        => /\ res.err = NoError
           /\ arg.t \in SignedTypes => res.val.mt = "Int32"
           /\ arg.t \in UnsignedTypes => res.val.mt \in {"Uint32", "Uint64"}
           /\ arg.t = "uint32" => res.val.mt = "Uint32"
           /\ arg.t = "uint64" => res.val.mt = "Uint64"

(***************************************************************************)
(* SpecConvertData: a record goes through validateRecord and its data then *)
(* through convertToMMDBType, as a validated record does in processRecord. *)
(* The data are decoded JSON: strings, numbers (float64), booleans, null,  *)
(* maps and lists.                                                         *)
(***************************************************************************)
\* JSON scalars as encoding/json decodes them into interface{}
DecodedScalars == {GoString("x"), GoNumber("float64", 1), GoBool(TRUE)}
DecodedLevel2 == DecodedScalars \cup {Nil, GoMap(<< >>), GoSlice(<< >>)}
DecodedLevel1 ==
    DecodedLevel2
      \cup {GoMap(f) : f \in GoMaps(DataKeys, DecodedLevel2)}
      \cup {GoSlice(l) : l \in GoSlices(DecodedLevel2, MaxListLen)}
DecodedData == {NilMap} \cup {GoMap(f) : f \in GoMaps({"a", "b"}, DecodedLevel1)}

ConvertDataArgs == {JSONRecord(n, d) : n \in CIDRv4, d \in DecodedData}

InitConvertData ==
    /\ IdleMain
    /\ pc = "fn_start"
    /\ now = 0
    /\ arg \in ConvertDataArgs
    /\ res = << >>

\* validateRecord(record)
CallValidateRecord ==
    /\ pc = "fn_start"
    /\ \E e \in validateRecord(arg) : res' = [err |-> e]
    /\ pc' = "fn_validated"
    /\ UNCHANGED <<now, arg, mainVars>>

\* convertToMMDBType(record.Data)
CallConvertData ==
    /\ pc = "fn_validated"
    /\ res' = [err |-> res.err, conv |-> convertToMMDBType(arg.Data)]
    /\ pc' = "fn_converted_data"
    /\ UNCHANGED <<now, arg, mainVars>>

NextConvertData == CallValidateRecord \/ CallConvertData

SpecConvertData == InitConvertData /\ [][NextConvertData]_vars

\* the typed value r has the shape of the decoded value v: the same scalar for
\* a scalar, a map with the same key set for a map, a sequence of the same
\* length and element order for a list
RECURSIVE SameShape(_, _)
SameShape(v, r) ==
    IF v.t = "string" THEN r = MString(v.s)
    ELSE IF v.t = "float64" THEN r = MNumber("Float64", v.n)
    ELSE IF v.t = "bool" THEN r = MBool(v.b)
    ELSE IF v.t = "map"
    THEN /\ r.mt = "Map"
         /\ DOMAIN r.m = DOMAIN v.m
         /\ \A k \in DOMAIN v.m : SameShape(v.m[k], r.m[k])
    ELSE IF v.t = "slice"
    THEN /\ r.mt = "Slice"
         /\ Len(r.l) = Len(v.l)
         /\ \A j \in 1..Len(v.l) : SameShape(v.l[j], r.l[j])
    ELSE FALSE

\* C11: conversion is total over the validated domain: for the data of every
\* record that validateRecord accepts, convertToMMDBType returns a typed value
\* and no error, and the result has the shape of the input (a map with the same
\* key set for a map, a sequence of the same length and element order for a
\* list, the same scalar for a scalar).
C11_ConversionTotal ==
    (pc = "fn_converted_data" /\ res.err = NoError)
        => /\ res.conv.err = NoError
           /\ SameShape(arg.Data, res.conv.val)

C11_Witness ==
    /\ pc = "fn_converted_data" /\ res.err = NoError
    /\ DOMAIN arg.Data.m = {"a", "b"}
    /\ arg.Data.m["a"] = GoSlice(<<GoString("x"), GoNumber("float64", 1)>>)
    /\ arg.Data.m["b"] = GoMap([a |-> GoBool(TRUE)])
    /\ res.conv.val =
         MMap([a |-> MSlice(<<MString("x"), MNumber("Float64", 1)>>),
               b |-> MMap([a |-> MBool(TRUE)])])

(***************************************************************************)
(* SpecRead: readJSONFile as a function of the content of the file.        *)
(***************************************************************************)
ReadFiles ==
    MainFiles
      \cup {[shape |-> "null"]}
      \cup {[shape |-> "object_mistyped", Metadata |-> m, Records |-> rs] :
              m \in {EmptyMetadata, Metadata("Test", [en |-> "d"], <<"en">>, <<0>>)},
              rs \in MainRecordLists}
      \cup {[shape |-> "list_mistyped", Records |-> rs] : rs \in MainRecordLists}

InitRead ==
    /\ IdleMain
    /\ pc = "fn_start"
    /\ now = 0
    /\ arg \in ReadFiles
    /\ res = << >>

CallRead ==
    /\ pc = "fn_start"
    /\ res' = readJSONFile(arg)
    /\ pc' = "fn_read"
    /\ UNCHANGED <<now, arg, mainVars>>

NextRead == CallRead

SpecRead == InitRead /\ [][NextRead]_vars

\* the content parses as the {metadata, records} envelope / as a bare list of
\* records
ParsesAsEnvelope(file) ==
    UnmarshalInputData(file, InputData(EmptyMetadata, << >>)).err = NoError
ParsesAsList(file) == UnmarshalRecords(file).err = NoError

\* C12: readJSONFile on readable content fails iff the content parses neither
\* as the envelope nor as a bare list of records, and the error it returns is
\* then the one of the legacy parse; when the envelope parse fails and the
\* legacy parse succeeds the result has exactly the parsed records, in order,
\* and the empty metadata.
C12_FailsOnlyIfBothFail ==
    pc = "fn_read" =>
        /\ (res.err # NoError) <=> (~ParsesAsEnvelope(arg) /\ ~ParsesAsList(arg))
        /\ res.err # NoError
             => res.err = <<"parsing JSON: " \o UnmarshalRecords(arg).err[1]>>
        /\ (~ParsesAsEnvelope(arg) /\ ParsesAsList(arg))
             => res = [data |-> InputData(EmptyMetadata, UnmarshalRecords(arg).records),
                       err |-> NoError]

C12_Witness ==
    /\ pc = "fn_read"
    /\ arg.shape = "legacy" /\ Len(arg.Records) = 2 /\ arg.Records[1] # arg.Records[2]
    /\ ~ParsesAsEnvelope(arg)
    /\ res = [data |-> InputData(EmptyMetadata, arg.Records), err |-> NoError]

====
